---- MODULE Spec2Model ----
(***************************************************************************)
(* Model of swe-cron (base.py): one scheduled run scrapes the configured   *)
(* career pages, de-duplicates the postings, and in write mode diffs them  *)
(* against listings.json, notifies about the new ones and saves the merged *)
(* and pruned store.                                                       *)
(***************************************************************************)
EXTENDS Integers, Sequences, FiniteSets, TLC

(***************************************************************************)
(* Bounds of the model                                                     *)
(***************************************************************************)
\* number of runs of the program in one behaviour
MaxRuns == 3
\* last calendar day (days are counted from the first run)
MaxDay == 61
\* lengths of the argument lists of the pure functions
MaxCur == 3
MaxExist == 2

(***************************************************************************)
(* Values                                                                  *)
(***************************************************************************)
\* Python's None for a string-valued field
None == "<None>"
\* a record without a "date" field: listing.get("date") is None
NoDate == -1
\* a "date" field that date.fromisoformat rejects
BadDate == -2
\* default of prune_old_listings' max_age_days
max_age_days == 60

\* the key of dedupe_jobs and find_new_listings
Key(j) == <<j.site, j.title, j.url>>

Keys(s) == {Key(s[i]) : i \in 1..Len(s)}

Job(site, title, url) == [site |-> site, title |-> title, url |-> url, date |-> NoDate]

\* all sequences over S of length at most n
SeqUpTo(S, n) == UNION {[1..k -> S] : k \in 0..n}

(***************************************************************************)
(* dedupe_jobs                                                             *)
(***************************************************************************)
RECURSIVE dedupe_loop(_, _, _, _)
dedupe_loop(jobs, i, seen, out) ==
    IF i > Len(jobs) THEN out
    ELSE LET key == Key(jobs[i])
         IN  IF key \notin seen
             THEN dedupe_loop(jobs, i + 1, seen \cup {key}, Append(out, jobs[i]))
             ELSE dedupe_loop(jobs, i + 1, seen, out)

RECURSIVE dedupe_loop_last(_, _, _, _)
dedupe_loop_last(jobs, i, seen, out) ==
    IF i < 1 THEN out
    ELSE LET key == Key(jobs[i])
         IN  IF key \notin seen
             THEN dedupe_loop_last(jobs, i - 1, seen \cup {key}, <<jobs[i]>> \o out)
             ELSE dedupe_loop_last(jobs, i - 1, seen, out)

\* a dedupe that keeps the last occurrence of each key
dedupe_jobs_keep_last(jobs) == dedupe_loop_last(jobs, Len(jobs), {}, <<>>)

dedupe_jobs(jobs) == dedupe_loop(jobs, 1, {}, <<>>)

(***************************************************************************)
(* find_new_listings                                                       *)
(***************************************************************************)
RECURSIVE existing_keys_loop(_, _, _)
existing_keys_loop(existing, i, existing_keys) ==
    IF i > Len(existing) THEN existing_keys
    ELSE existing_keys_loop(existing, i + 1, existing_keys \cup {Key(existing[i])})

RECURSIVE new_loop(_, _, _, _)
new_loop(current, i, existing_keys, new) ==
    IF i > Len(current) THEN new
    ELSE IF Key(current[i]) \notin existing_keys
         THEN new_loop(current, i + 1, existing_keys, Append(new, current[i]))
         ELSE new_loop(current, i + 1, existing_keys, new)

\* a diff that compares whole records instead of identity keys
find_new_listings_whole(current, existing) ==
    SelectSeq(current, LAMBDA j : \A i \in 1..Len(existing) : existing[i] # j)

find_new_listings(current, existing) ==
    new_loop(current, 1, existing_keys_loop(existing, 1, {}), <<>>)

(***************************************************************************)
(* prune_old_listings                                                      *)
(***************************************************************************)
RECURSIVE prune_loop(_, _, _, _)
prune_loop(listings, i, cutoff, pruned) ==
    IF i > Len(listings) THEN pruned
    ELSE LET listing_date == listings[i].date
         IN  IF listing_date = NoDate
             THEN prune_loop(listings, i + 1, cutoff, Append(pruned, listings[i]))
             ELSE IF listing_date = BadDate
             THEN prune_loop(listings, i + 1, cutoff, Append(pruned, listings[i]))
             ELSE IF listing_date >= cutoff
             THEN prune_loop(listings, i + 1, cutoff, Append(pruned, listings[i]))
             ELSE prune_loop(listings, i + 1, cutoff, pruned)

\* a prune that also drops the entries dated exactly at the cutoff
prune_old_listings_strict(listings, day) ==
    SelectSeq(listings, LAMBDA l : l.date \in {NoDate, BadDate} \/ l.date > day - max_age_days)

prune_old_listings(listings, day) ==
    prune_loop(listings, 1, day - max_age_days, <<>>)

\* main's loop that stamps the new listings with today's date
stamp(new_listings_, day) ==
    [i \in 1..Len(new_listings_) |-> [new_listings_[i] EXCEPT !.date = day]]

(***************************************************************************)
(* Site configuration (links.json) and normalize_selector                  *)
(***************************************************************************)
\* a string as its characters; <<None>> is Python's None
NoneChars == <<None>>

Whitespace == {" "}

RECURSIVE lstrip(_)
lstrip(t) == IF t # <<>> /\ Head(t) \in Whitespace THEN lstrip(Tail(t)) ELSE t

RECURSIVE rstrip(_)
rstrip(t) ==
    IF t # <<>> /\ t[Len(t)] \in Whitespace THEN rstrip(SubSeq(t, 1, Len(t) - 1)) ELSE t

strip(t) == rstrip(lstrip(t))

special == {".", "#", ":", "[", ">", "+", "~", ",", "*", "(", ")", "\"", "'", "="}

normalize_selector(tag) ==
    IF tag = NoneChars \/ tag = <<>> THEN NoneChars
    ELSE LET t == strip(tag)
         IN  IF t = <<>> THEN NoneChars
             ELSE IF \E i \in 1..Len(t) : t[i] \in special THEN t
             ELSE <<".">> \o t

\* the sites of links.json, in the order of the file
SiteNames == <<"Acme", "Beta", "Gamma">>

\* a link is origin, path and query; "" for a missing link
sites ==
    [Acme  |-> [link |-> [origin |-> "https://acme.example", path |-> "/jobs", query |-> ""],
                tag  |-> <<"j", "o", "b">>],
     Beta  |-> [link |-> [origin |-> "https://beta.example", path |-> "/careers", query |-> "?team=eng"],
                tag  |-> <<"a", ".", "j", "o", "b">>],
     Gamma |-> [link |-> [origin |-> "https://gamma.example", path |-> "/jobs", query |-> ""],
                tag  |-> <<" ">>]]

LinkText(link) == link.origin \o link.path \o link.query

\* the guard of the loop's "Skipping": not url or not selector
Skipped(site_name) ==
    \/ LinkText(sites[site_name].link) = ""
    \/ normalize_selector(sites[site_name].tag) = NoneChars

Scrapeable == {SiteNames[i] : i \in {k \in 1..Len(SiteNames) : ~Skipped(SiteNames[k])}}

(***************************************************************************)
(* Extraction of one element: title and href fallbacks, the keyword        *)
(* filter and the resolution of relative links                             *)
(***************************************************************************)
\* what the page gives for one matched element
Intern1Rel ==
    [h3 |-> "SWE Intern", position_title |-> "", inner_text |-> "SWE Intern Apply",
     href |-> "/jobs/1", a_href |-> None, closest_href |-> None]

Intern1Abs ==
    [h3 |-> "", position_title |-> "SWE Intern", inner_text |-> "SWE Intern Apply",
     href |-> None, a_href |-> "https://acme.example/jobs/1", closest_href |-> None]

GradNoLink ==
    [h3 |-> "", position_title |-> "", inner_text |-> "New Grad SWE",
     href |-> None, a_href |-> None, closest_href |-> None]

StaffRole ==
    [h3 |-> "Staff Engineer", position_title |-> "", inner_text |-> "Staff Engineer",
     href |-> None, a_href |-> None, closest_href |-> "https://jobs.example/9"]

Untitled ==
    [h3 |-> "", position_title |-> "", inner_text |-> "",
     href |-> "/jobs/7", a_href |-> None, closest_href |-> None]

Elements == {Intern1Rel, Intern1Abs, GradNoLink, StaffRole, Untitled}

\* title.lower() contains "intern", "grad" or "early"
KeywordTitles == {"SWE Intern", "New Grad SWE", "SWE Intern Apply"}

\* href.startswith("http")
HttpHrefs == {"https://acme.example/jobs/1", "https://jobs.example/9"}

\* urljoin of the page's url without its query and a rooted path
urljoin(link, href) == link.origin \o href

ElemTitle(el) ==
    IF el.h3 # "" THEN el.h3
    ELSE IF el.position_title # "" THEN el.position_title
    ELSE el.inner_text

ElemHref(el) ==
    IF el.href \notin {None, ""} THEN el.href
    ELSE IF el.a_href \notin {None, ""} THEN el.a_href
    ELSE el.closest_href

\* the postings one element adds to results: none or one
ExtractElem(site_name, el) ==
    LET title == ElemTitle(el)
        href  == ElemHref(el)
    IN  IF title = "" THEN <<>>
        ELSE IF title \in KeywordTitles \/ site_name = ""
        THEN <<Job(site_name, title,
                   IF href \notin {None, ""} /\ href \notin HttpHrefs
                   THEN urljoin(sites[site_name].link, href) ELSE href)>>
        ELSE <<>>

RECURSIVE ExtractAll(_, _)
ExtractAll(site_name, elems) ==
    IF elems = <<>> THEN <<>>
    ELSE ExtractElem(site_name, Head(elems)) \o ExtractAll(site_name, Tail(elems))

(***************************************************************************)
(* listings.json: json.dump writes the text, json.load parses it           *)
(***************************************************************************)
NoJob == Job(None, None, None)
OpenTok == [tok |-> "[", val |-> NoJob]
CloseTok == [tok |-> "]", val |-> NoJob]
ObjTok(j) == [tok |-> "{}", val |-> j]

\* the text json.dump writes for a list of records
json_dump(jobs) == <<OpenTok>> \o [i \in 1..Len(jobs) |-> ObjTok(jobs[i])] \o <<CloseTok>>

WellFormed(text) ==
    /\ Len(text) >= 2
    /\ text[1] = OpenTok
    /\ text[Len(text)] = CloseTok
    /\ \A i \in 2..(Len(text) - 1) : text[i].tok = "{}"

\* json.load: the list, or an exception on text that is not a JSON document
json_load(text) ==
    IF WellFormed(text)
    THEN [raised |-> FALSE, value |-> [i \in 1..(Len(text) - 2) |-> text[i + 1].val]]
    ELSE [raised |-> TRUE, value |-> <<>>]

AbsentFile == [exists |-> FALSE, text |-> <<>>]

\* a load that takes an unreadable snapshot for an empty one
load_listings_lenient(f) ==
    IF ~f.exists THEN [raised |-> FALSE, value |-> <<>>]
    ELSE [raised |-> FALSE, value |-> json_load(f.text).value]

load_listings(f) ==
    IF ~f.exists THEN [raised |-> FALSE, value |-> <<>>]
    ELSE json_load(f.text)

(***************************************************************************)
(* send_pushover                                                           *)
(***************************************************************************)
\* what the transport does with one request
SendOutcomes == {"no_requests", "delivered", "connection_error", "timeout", "http_error", "bad_body"}

\* the exception the try block ends with, "" for none: requests.post raises
\* ConnectionError or Timeout, response.json() raises requests' JSONDecodeError,
\* raise_for_status raises HTTPError
RaisedIn(outcome) ==
    CASE outcome = "connection_error" -> "ConnectionError"
      [] outcome = "timeout" -> "Timeout"
      [] outcome = "bad_body" -> "JSONDecodeError"
      [] outcome = "http_error" -> "HTTPError"
      [] OTHER -> ""

\* the subclasses of requests.exceptions.RequestException
RequestException == {"ConnectionError", "Timeout", "JSONDecodeError", "HTTPError"}

\* a notifier whose except clause misses the exception of an unusable body
send_pushover_narrow(outcome) ==
    IF outcome = "no_requests" THEN [raised |-> FALSE, ok |-> FALSE]
    ELSE IF RaisedIn(outcome) = "" THEN [raised |-> FALSE, ok |-> TRUE]
    ELSE IF RaisedIn(outcome) \in RequestException \ {"JSONDecodeError"}
         THEN [raised |-> FALSE, ok |-> FALSE]
    ELSE [raised |-> TRUE, ok |-> FALSE]

send_pushover(outcome) ==
    IF outcome = "no_requests" THEN [raised |-> FALSE, ok |-> FALSE]
    ELSE IF RaisedIn(outcome) = "" THEN [raised |-> FALSE, ok |-> TRUE]
    ELSE IF RaisedIn(outcome) \in RequestException THEN [raised |-> FALSE, ok |-> FALSE]
    ELSE [raised |-> TRUE, ok |-> FALSE]

(***************************************************************************)
(* State                                                                   *)
(***************************************************************************)
VARIABLES
    today,            \* date.today(), in days
    file,             \* listings.json: whether it exists, and its text
    pc,               \* where the run is; a finished run rests at done, fatal or crashed
    write,            \* "--write" in sys.argv
    idx,              \* position of scrape_sites' loop in SiteNames
    results,          \* scrape_sites' results
    unique,           \* main's unique
    existing,         \* main's existing
    new_listings,     \* main's new_listings
    all_listings,     \* main's all_listings
    sent,             \* the notifier's invocations of this run
    loaded,           \* load_listings was called in this run
    visited,          \* scrape_sites: the sites whose page was queried so far
    failed,           \* scrape_sites: the sites on which a step raised so far
    cause,            \* where the exception that ended the run was raised
    runs,             \* runs started
    notified_before,  \* keys delivered by the notifier in earlier runs
    file_at_start,    \* listings.json when this run started
    prev,             \* the previous run: whether it notified and saved, and its unique
    crashed_save,     \* the save a crash interrupted: the store before it and its argument
    arg_current,      \* argument lists of the pure functions
    arg_existing

vars ==
    <<today, file, pc, write, idx, results, unique, existing, new_listings, all_listings,
      sent, loaded, visited, failed, cause, runs, notified_before, file_at_start, prev,
      crashed_save, arg_current, arg_existing>>

runVars == <<write, runs, notified_before, file_at_start, prev>>
pureVars == <<arg_current, arg_existing>>

Rest == {"idle", "done", "fatal", "crashed"}

\* a store an earlier variant of the program left: entries without a usable date
LegacyStore ==
    << [Job("Acme", "New Grad SWE", None) EXCEPT !.date = NoDate],
       [Job("Beta", "Early Careers SWE", None) EXCEPT !.date = BadDate] >>

InitFiles == {AbsentFile, [exists |-> TRUE, text |-> json_dump(LegacyStore)]}

Init ==
    /\ today = 0
    /\ file \in InitFiles
    /\ pc = "idle"
    /\ write = FALSE
    /\ idx = 1
    /\ results = <<>>
    /\ unique = <<>>
    /\ existing = <<>>
    /\ new_listings = <<>>
    /\ all_listings = <<>>
    /\ sent = <<>>
    /\ loaded = FALSE
    /\ visited = {}
    /\ failed = {}
    /\ cause = ""
    /\ runs = 0
    /\ notified_before = {}
    /\ file_at_start = file
    /\ prev = [ok |-> FALSE, unique |-> <<>>]
    /\ crashed_save = [happened |-> FALSE, before |-> <<>>, target |-> <<>>]
    /\ arg_current = <<>>
    /\ arg_existing = <<>>

(***************************************************************************)
(* The clock and the scheduler                                             *)
(***************************************************************************)
DayJumps == {max_age_days, max_age_days + 1}

\* days pass between two runs; a run is taken to fall within one calendar day,
\* so that the date of the stamps and the date prune_old_listings reads agree
Tick(d) ==
    /\ pc \in Rest
    /\ today + d <= MaxDay
    /\ today' = today + d
    /\ UNCHANGED <<file, pc, write, idx, results, unique, existing, new_listings,
                   all_listings, sent, loaded, visited, failed, cause, runs,
                   notified_before, file_at_start, prev, crashed_save, pureVars>>

DeliveredKeys == UNION {Keys(sent[i].postings) : i \in {k \in 1..Len(sent) : sent[k].ok}}

\* main up to the call of scrape_sites, with the credentials, links.json and
\* playwright in place and no --company filter
StartRun(w) ==
    /\ pc \in Rest
    /\ runs < MaxRuns
    /\ runs' = runs + 1
    /\ write' = w
    /\ pc' = "scrape"
    /\ idx' = 1
    /\ results' = <<>>
    /\ unique' = <<>>
    /\ existing' = <<>>
    /\ new_listings' = <<>>
    /\ all_listings' = <<>>
    /\ sent' = <<>>
    /\ loaded' = FALSE
    /\ visited' = {}
    /\ failed' = {}
    /\ cause' = ""
    /\ notified_before' = notified_before \cup DeliveredKeys
    /\ file_at_start' = file
    /\ prev' = IF write /\ pc = "done" /\ sent # <<>>
               THEN [ok |-> TRUE, unique |-> unique]
               ELSE [ok |-> FALSE, unique |-> <<>>]
    /\ UNCHANGED <<today, file, crashed_save, pureVars>>

(***************************************************************************)
(* scrape_sites                                                            *)
(***************************************************************************)
\* what query_selector_all can return on the page of a site
Pages(site_name) ==
    IF site_name = "Acme"
    THEN {<<>>, <<Intern1Rel, Intern1Abs>>, <<GradNoLink, Intern1Rel>>}
    ELSE {<<>>, <<Intern1Rel>>, <<StaffRole, Untitled>>}

\* how the page of a site was opened: the stealth launch, the fallback launch
\* after the first failed, or browser.new_page() after both failed
Launches == {"stealth", "fallback", "plain"}

\* wait_for_selector: the selector appeared, or the wait timed out
Waits == {"appeared", "timeout"}

InLoop == pc = "scrape" /\ idx <= Len(SiteNames)

\* "Skipping": missing link or tag
SkipSite ==
    /\ InLoop
    /\ Skipped(SiteNames[idx])
    /\ idx' = idx + 1
    /\ UNCHANGED <<today, file, pc, results, unique, existing, new_listings, all_listings,
                   sent, loaded, visited, failed, cause, crashed_save, runVars, pureVars>>

\* one iteration of the loop whose page.goto returns
VisitSite(launch, wait, elems) ==
    /\ InLoop
    /\ ~Skipped(SiteNames[idx])
    /\ elems \in Pages(SiteNames[idx])
    /\ results' = results \o ExtractAll(SiteNames[idx], elems)
    /\ visited' = visited \cup {SiteNames[idx]}
    /\ failed' = IF launch # "stealth" \/ wait = "timeout"
                 THEN failed \cup {SiteNames[idx]} ELSE failed
    /\ idx' = idx + 1
    /\ UNCHANGED <<today, file, pc, unique, existing, new_listings, all_listings,
                   sent, loaded, cause, crashed_save, runVars, pureVars>>

\* page.goto raises (navigation timeout): nothing catches it
GotoRaises ==
    /\ InLoop
    /\ ~Skipped(SiteNames[idx])
    /\ failed' = failed \cup {SiteNames[idx]}
    /\ pc' = "fatal"
    /\ cause' = "scrape_sites"
    /\ UNCHANGED <<today, file, idx, results, unique, existing, new_listings, all_listings,
                   sent, loaded, visited, crashed_save, runVars, pureVars>>

\* where main goes after dedupe_jobs
AfterDedupeAlways(w) == "load"

AfterDedupe(w) == IF ~w THEN "done" ELSE "load"

\* scrape_sites returns (its bookkeeping ends with it); dedupe_jobs; the dry
\* run ends here
FinishScrape ==
    /\ pc = "scrape"
    /\ idx > Len(SiteNames)
    /\ unique' = dedupe_jobs(results)
    /\ pc' = AfterDedupe(write)
    /\ visited' = {}
    /\ failed' = {}
    /\ UNCHANGED <<today, file, idx, results, existing, new_listings, all_listings,
                   sent, loaded, cause, crashed_save, runVars, pureVars>>

(***************************************************************************)
(* main in write mode                                                      *)
(***************************************************************************)
\* load_listings and find_new_listings; with something new, the date stamps
LoadAndDiff ==
    /\ pc = "load"
    /\ loaded' = TRUE
    /\ LET r == load_listings(file)
       IN  IF r.raised
           THEN /\ pc' = "fatal"
                /\ cause' = "load_listings"
                /\ UNCHANGED <<existing, new_listings>>
           ELSE LET new == find_new_listings(unique, r.value)
                IN  /\ existing' = r.value
                    /\ cause' = cause
                    /\ IF new = <<>>
                       THEN pc' = "done" /\ new_listings' = <<>>
                       ELSE pc' = "notify" /\ new_listings' = stamp(new, today)
    /\ UNCHANGED <<today, file, idx, results, unique, all_listings, sent, visited, failed,
                   crashed_save, runVars, pureVars>>

\* notify_new_listings: one call of send_pushover with the message of new_listings
Notify(outcome) ==
    /\ pc = "notify"
    /\ LET r == send_pushover(outcome)
       IN  /\ sent' = Append(sent, [postings |-> new_listings, ok |-> r.ok])
           /\ pc' = IF r.raised THEN "fatal" ELSE "merge"
           /\ cause' = IF r.raised THEN "send_pushover" ELSE cause
    /\ UNCHANGED <<today, file, idx, results, unique, existing, new_listings, all_listings,
                   loaded, visited, failed, crashed_save, runVars, pureVars>>

\* new_listings + existing
merge(new, old) == new \o old

\* the merge, prune_old_listings, and save_listings' open(.., "w"), which empties the file
MergeAndOpen ==
    /\ pc = "merge"
    /\ all_listings' = prune_old_listings(merge(new_listings, existing), today)
    /\ file' = [exists |-> TRUE, text |-> <<>>]
    /\ pc' = "saving"
    /\ UNCHANGED <<today, idx, results, unique, existing, new_listings, sent, loaded,
                   visited, failed, cause, crashed_save, runVars, pureVars>>

\* json.dump writes the whole text, the file is closed, main returns
SaveCompletes ==
    /\ pc = "saving"
    /\ file' = [exists |-> TRUE, text |-> json_dump(all_listings)]
    /\ pc' = "done"
    /\ UNCHANGED <<today, idx, results, unique, existing, new_listings, all_listings, sent,
                   loaded, visited, failed, cause, crashed_save, runVars, pureVars>>

\* the process dies while json.dump is writing: n tokens of the text are on disk
CrashInSave(n) ==
    /\ pc = "saving"
    /\ n < Len(json_dump(all_listings))
    /\ file' = [exists |-> TRUE, text |-> SubSeq(json_dump(all_listings), 1, n)]
    /\ pc' = "crashed"
    /\ cause' = "crash"
    /\ crashed_save' = [happened |-> TRUE, before |-> existing, target |-> all_listings]
    /\ UNCHANGED <<today, idx, results, unique, existing, new_listings, all_listings, sent,
                   loaded, visited, failed, runVars, pureVars>>

MaxStore == 3 + Len(LegacyStore)

Next ==
    \/ \E d \in DayJumps : Tick(d)
    \/ \E w \in BOOLEAN : StartRun(w)
    \/ SkipSite
    \/ \E launch \in Launches, wait \in Waits, elems \in UNION {Pages(SiteNames[i]) : i \in 1..Len(SiteNames)} :
            VisitSite(launch, wait, elems)
    \/ GotoRaises
    \/ FinishScrape
    \/ LoadAndDiff
    \/ \E outcome \in SendOutcomes : Notify(outcome)
    \/ MergeAndOpen
    \/ SaveCompletes
    \/ \E n \in 0..(MaxStore + 1) : CrashInSave(n)

Spec == Init /\ [][Next]_vars

(***************************************************************************)
(* The pure functions on their own: dedupe_jobs and find_new_listings      *)
(* applied to argument lists drawn from a small universe of postings       *)
(***************************************************************************)
PurePostings ==
    { Job("Acme", "SWE Intern", "https://acme.example/jobs/1"),
      [Job("Acme", "SWE Intern", "https://acme.example/jobs/1") EXCEPT !.date = 5],
      Job("Acme", "SWE Intern", None),
      Job("Acme", "New Grad SWE", "https://acme.example/jobs/1"),
      Job("Beta", "SWE Intern", "https://acme.example/jobs/1") }

InitPure ==
    /\ today = 0
    /\ file = AbsentFile
    /\ pc = "args"
    /\ write = FALSE
    /\ idx = 1
    /\ results = <<>>
    /\ unique = <<>>
    /\ existing = <<>>
    /\ new_listings = <<>>
    /\ all_listings = <<>>
    /\ sent = <<>>
    /\ loaded = FALSE
    /\ visited = {}
    /\ failed = {}
    /\ cause = ""
    /\ runs = 0
    /\ notified_before = {}
    /\ file_at_start = file
    /\ prev = [ok |-> FALSE, unique |-> <<>>]
    /\ crashed_save = [happened |-> FALSE, before |-> <<>>, target |-> <<>>]
    /\ arg_current \in SeqUpTo(PurePostings, MaxCur)
    /\ arg_existing \in SeqUpTo(PurePostings, MaxExist)

\* unique = dedupe_jobs(jobs)
CallDedupe ==
    /\ pc = "args"
    /\ unique' = dedupe_jobs(arg_current)
    /\ pc' = "deduped"
    /\ UNCHANGED <<today, file, write, idx, results, existing, new_listings, all_listings,
                   sent, loaded, visited, failed, cause, runs, notified_before,
                   file_at_start, prev, crashed_save, pureVars>>

\* new_listings = find_new_listings(current, existing), and with existing
\* replaced by current itself or by the empty list
CallDiff(against, tag) ==
    /\ pc = "args"
    /\ new_listings' = find_new_listings(arg_current, against)
    /\ pc' = tag
    /\ UNCHANGED <<today, file, write, idx, results, unique, existing, all_listings,
                   sent, loaded, visited, failed, cause, runs, notified_before,
                   file_at_start, prev, crashed_save, pureVars>>

NextPure ==
    \/ CallDedupe
    \/ CallDiff(arg_existing, "diffed")
    \/ CallDiff(arg_current, "diffed_self")
    \/ CallDiff(<<>>, "diffed_empty")

SpecPure == InitPure /\ [][NextPure]_vars

(***************************************************************************)
(* Properties                                                              *)
(***************************************************************************)
SameKey(a, b) == a.site = b.site /\ a.title = b.title /\ a.url = b.url

Has(s, e) == \E i \in 1..Len(s) : s[i] = e

StoreOf(f) == json_load(f.text).value

Unreadable(f) == f.exists /\ json_load(f.text).raised

\* C1: in write mode, when the deduplicated scrape has postings whose key is
\* absent from the loaded store, the notifier is invoked exactly once with
\* exactly those postings and the store is then saved containing them; and the
\* next write-mode run with the same scrape result finds nothing new, does not
\* invoke the notifier and leaves the store as it was.
C1_NotifyOnceThenQuiet ==
    /\ (write /\ pc = "done" /\ new_listings # <<>>) =>
          /\ Len(sent) = 1
          /\ sent[1].postings = new_listings
          /\ Keys(new_listings) = Keys(unique) \ Keys(existing)
          /\ ~Unreadable(file)
          /\ \A i \in 1..Len(new_listings) : Has(StoreOf(file), new_listings[i])
    /\ (prev.ok /\ write /\ loaded /\ unique = prev.unique) =>
          /\ new_listings = <<>>
          /\ sent = <<>>
          /\ file = file_at_start

\* an entry prune_old_listings drops: dated, and older than the cutoff
Expired(e, day) == e.date # NoDate /\ e.date # BadDate /\ e.date < day - max_age_days

\* C2: every snapshot save writes is the new postings, stamped with today's
\* date, merged with the loaded store, from which an entry is dropped if and
\* only if it is dated and strictly older than today minus the retention
\* window: the new postings and the existing entries on or after the cutoff
\* are in it, undated entries stay, and kept history is not lost.
C2_SnapshotIsPrunedMerge ==
    /\ pc = "saving" =>
          /\ new_listings # <<>>
          /\ \A i \in 1..Len(new_listings) :
                new_listings[i].date = today /\ Has(all_listings, new_listings[i])
          /\ \A i \in 1..Len(existing) :
                Has(all_listings, existing[i]) <=> ~Expired(existing[i], today)
          /\ \A i \in 1..Len(all_listings) :
                Has(new_listings, all_listings[i]) \/ Has(existing, all_listings[i])
          /\ Len(all_listings) =
                Len(new_listings)
                + Cardinality({i \in 1..Len(existing) : ~Expired(existing[i], today)})
          /\ (\E i \in 1..Len(existing) : ~Expired(existing[i], today)) =>
                all_listings # new_listings
    /\ (pc = "done" /\ sent # <<>>) =>
          /\ ~Unreadable(file)
          /\ StoreOf(file) = all_listings

\* a save that dropped an old entry, kept an undated one and added a new one
C2_PrunedSaveSeen ==
    /\ pc = "done"
    /\ sent # <<>>
    /\ \E i \in 1..Len(existing) : Expired(existing[i], today)
    /\ \E i \in 1..Len(existing) : existing[i].date = NoDate /\ Has(StoreOf(file), existing[i])
    /\ Len(StoreOf(file)) >= 3

IsNew(j, old) == \A i \in 1..Len(old) : ~SameKey(old[i], j)

DropDates(s) == [i \in 1..Len(s) |-> [s[i] EXCEPT !.date = NoDate]]

\* C3: find_new_listings(current, existing) is, in current's order, exactly the
\* members of current whose key (site, title, url) is the key of no member of
\* existing; diff(current, current) is empty, diff(current, []) is current,
\* and the dates of the records do not affect which members are returned.
C3_DiffCorrect ==
    /\ pc = "diffed" =>
          /\ new_listings = SelectSeq(arg_current, LAMBDA j : IsNew(j, arg_existing))
          /\ new_listings = find_new_listings(arg_current, DropDates(arg_existing))
          /\ DropDates(new_listings) = find_new_listings(DropDates(arg_current), arg_existing)
    /\ pc = "diffed_self" => new_listings = <<>>
    /\ pc = "diffed_empty" => new_listings = arg_current

\* a diff that dropped a member whose record differs from the stored one only
\* in its date, and kept another
C3_DiffSeen ==
    /\ pc = "diffed"
    /\ new_listings # <<>>
    /\ \E i \in 1..Len(arg_current), m \in 1..Len(arg_existing) :
          SameKey(arg_current[i], arg_existing[m]) /\ arg_current[i] # arg_existing[m]

\* C4: a failure while extracting one site does not abort the run: the site
\* adds nothing and every remaining configured site is still visited.
C4_SiteFailureIsolated ==
    failed # {} =>
        /\ pc # "fatal"
        /\ (idx > Len(SiteNames) => visited = Scrapeable)

C6_NotifyNeverBlocksSave ==
    sent # <<>> =>
        /\ Len(sent) = 1
        /\ cause # "send_pushover"
        /\ pc \in {"merge", "saving", "done", "crashed"}
        /\ pc = "done" =>
              /\ ~Unreadable(file)
              /\ \A i \in 1..Len(new_listings) : Has(StoreOf(file), new_listings[i])

\* a run whose notification failed and whose store was saved all the same
C6_FailedSendSavedSeen ==
    /\ pc = "done"
    /\ Len(sent) = 1
    /\ ~sent[1].ok
    /\ StoreOf(file) = all_listings
    /\ all_listings # <<>>

\* C7: a crash in the middle of save does not corrupt the snapshot: the next
\* run's load returns the complete previous snapshot or the complete new one.
C7_CrashLeavesSnapshot ==
    (crashed_save.happened /\ pc # "crashed" /\ loaded) =>
        /\ cause # "load_listings"
        /\ existing \in {crashed_save.before, crashed_save.target}

\* C8: a run without --write only scrapes and de-duplicates: it never loads or
\* writes the listing store and never invokes the notifier.
C8_DryRunTouchesNothing ==
    ~write =>
        /\ ~loaded
        /\ sent = <<>>
        /\ file = file_at_start
        /\ pc \in {"idle", "scrape", "done", "fatal"}
        /\ pc = "fatal" => cause = "scrape_sites"

\* a finished dry run that scraped a posting the existing store does not hold
C8_DryRunSeen ==
    /\ ~write
    /\ pc = "done"
    /\ file.exists
    /\ ~Unreadable(file)
    /\ Keys(unique) \ Keys(StoreOf(file)) # {}

\* the first position of key k in s
FirstIndex(s, k) ==
    CHOOSE i \in 1..Len(s) : Key(s[i]) = k /\ \A m \in 1..(i - 1) : Key(s[m]) # k

\* C9: dedupe_jobs returns a subsequence without two equal keys, in which every
\* key of the input appears once, as its first occurrence, in the order of the
\* first occurrences.
C9_DedupeCorrect ==
    pc = "deduped" =>
        /\ \A i, m \in 1..Len(unique) : SameKey(unique[i], unique[m]) => i = m
        /\ Keys(unique) = Keys(arg_current)
        /\ \A i \in 1..Len(unique) :
              unique[i] = arg_current[FirstIndex(arg_current, Key(unique[i]))]
        /\ \A i, m \in 1..Len(unique) :
              i < m => FirstIndex(arg_current, Key(unique[i]))
                         < FirstIndex(arg_current, Key(unique[m]))

\* a dedupe that removed a later record of a key whose records differ, and kept two keys
C9_DedupeSeen ==
    /\ pc = "deduped"
    /\ Len(unique) = 2
    /\ \E i, m \in 1..Len(arg_current) :
          i < m /\ SameKey(arg_current[i], arg_current[m]) /\ arg_current[i] # arg_current[m]

\* C10: over any sequence of write-mode runs, a key whose notification was
\* delivered in one run is never notified again in a later run.
C10_NeverNotifiedTwice ==
    \A i \in 1..Len(sent) : Keys(sent[i].postings) \cap notified_before = {}

====
